---- MODULE Spec2Model ----
(***************************************************************************)
(* Model of src/network/__init__.py: a fully connected feed-forward        *)
(* network (class Network) trained by mini-batch stochastic gradient       *)
(* descent with backpropagation.                                           *)
(*                                                                         *)
(* Numbers.  The source computes in IEEE doubles.  Here every weight,      *)
(* bias, activation and gradient is an exact integer, and the quotients    *)
(* the source forms (accuracy, average cost, learning_rate / batch length) *)
(* are exact rationals.  Rounding, overflow and NaN are outside the model. *)
(* The activation pair is a constructor parameter of Network (lines 38-39, *)
(* stored at 45-46, always called through self); the model plugs in an     *)
(* integer-valued pair (a hard clip and its slope) because the default     *)
(* sigmoid is real-valued.                                                 *)
(*                                                                         *)
(* Indices.  Python sequences are 0-based; TLA+ sequences are 1-based.     *)
(* Labels and np.argmax results keep their 0-based Python values.          *)
(***************************************************************************)
EXTENDS Integers, Sequences, FiniteSets, TLC

\* ------------------------------------------------------------- bounds
\* Largest number of rows of a dataset handed to sgd / update_mini_batch.
MaxRows == 3
\* Largest max_epochs handed to sgd.
MaxEpochs == 2

\* Layer structures the network is built with (each has >= 2 layers): one, two
\* and three layer transitions, with differing neuron counts.
Structures == {<<2, 3>>, <<2, 1, 2>>, <<1, 2, 1, 2>>}

\* Layer structures the constructor is merely called with (any length).
AnyStructures == Structures \cup {<<>>, <<1>>, <<2>>}

\* Outcomes of the random initialisation that are explored.
Seeds == {0}

\* ------------------------------------------------------- exact rationals
RECURSIVE GCD(_, _)
GCD(a, b) ==
    IF b = 0 THEN a ELSE GCD(b, a % b)

\* The rational n/d (n >= 0, d > 0) in lowest terms.
Frac(n, d) ==
    LET g == GCD(n, d) IN <<n \div g, d \div g>>

FracAdd(p, q) ==
    Frac(p[1] * q[2] + q[1] * p[2], p[2] * q[2])

FracMulInt(p, k) ==
    Frac(p[1] * k, p[2])

FracDivInt(p, k) ==
    Frac(p[1], p[2] * k)

\* No value (a call that has not returned anything, an absent log field).
NoValue == <<0, 0>>

\* Python's a / b where the quotient is an integer (see LearningRates).
TrueDiv(a, b) ==
    a \div b

\* ------------------------------------------------------- numpy helpers
RECURSIVE SumSeq(_)
SumSeq(s) ==
    IF Len(s) = 0 THEN 0 ELSE s[1] + SumSeq(Tail(s))

\* A numpy array holds its values: the sequence f with every entry computed
\* (a function expression is otherwise re-evaluated at each access).
Array(f) ==
    <<>> \o f

\* seq[-i] of Python (i >= 1): the i-th element from the end.
PyNegIndex(s, i) ==
    Len(s) - i + 1

\* np.zeros(shape) for a vector / a matrix of the shape of v / m.
ZerosLikeVec(v) ==
    Array([i \in 1..Len(v) |-> 0])

ZerosLikeMat(m) ==
    Array([i \in 1..Len(m) |-> ZerosLikeVec(m[i])])

\* np.dot(w, v): matrix (rows x cols) times vector (cols).
Dot(w, v) ==
    Array([i \in 1..Len(w) |-> SumSeq([j \in 1..Len(v) |-> w[i][j] * v[j]])])

\* w.T
Transpose(w) ==
    Array([j \in 1..Len(w[1]) |-> Array([i \in 1..Len(w) |-> w[i][j]])])

\* np.outer(d, a)
Outer(d, a) ==
    Array([i \in 1..Len(d) |-> Array([j \in 1..Len(a) |-> d[i] * a[j]])])

VecAdd(u, v) ==
    Array([i \in 1..Len(u) |-> u[i] + v[i]])

VecMul(u, v) ==
    Array([i \in 1..Len(u) |-> u[i] * v[i]])

MatAdd(a, b) ==
    Array([i \in 1..Len(a) |-> VecAdd(a[i], b[i])])

\* p - c * g for a vector p and a scalar c
VecStep(p, c, g) ==
    Array([i \in 1..Len(p) |-> p[i] - c * g[i]])

MatStep(p, c, g) ==
    Array([i \in 1..Len(p) |-> VecStep(p[i], c, g[i])])

\* np.argmax(v): the 0-based index of the first maximal entry.
ArgMax(v) ==
    (CHOOSE i \in 1..Len(v) :
        /\ \A j \in 1..Len(v) : v[j] <= v[i]
        /\ \A j \in 1..(i - 1) : v[j] < v[i]) - 1

\* ------------------------------------------------ activation and cost
\* The configured activation: a clip of the summatory value to [-2, 2].
activate_function(x) ==
    Array([i \in 1..Len(x) |-> IF x[i] < -2 THEN -2 ELSE IF x[i] > 2 THEN 2 ELSE x[i]])

\* The configured derivative of the activation: 1 inside the clip, else 0.
activate_derivative(x) ==
    Array([i \in 1..Len(x) |-> IF x[i] > -2 /\ x[i] < 2 THEN 1 ELSE 0])

\* y = zeros_like(a); y[one_hot_index] = 1
OneHot(a, one_hot_index) ==
    Array([i \in 1..Len(a) |-> IF i = one_hot_index + 1 THEN 1 ELSE 0])

\* 0.5 * sum((a - y) ** 2), as an exact rational
cost_function(output_activations, one_hot_index) ==
    LET y == OneHot(output_activations, one_hot_index)
    IN  Frac(SumSeq([i \in 1..Len(y) |->
                 (output_activations[i] - y[i]) * (output_activations[i] - y[i])]), 2)

\* a - y
cost_derivative(output_activations, one_hot_index) ==
    LET y == OneHot(output_activations, one_hot_index)
    IN  Array([i \in 1..Len(y) |-> output_activations[i] - y[i]])

\* ------------------------------------------------------------ Network
\* One draw of np.random.randn for layer l, row i, column j (column 0: bias).
randn(seed, l, i, j) ==
    ((seed + l + 2 * i + j) % 3) - 1

\* Variant: randn(structure[layer - 1], structure[layer]), rows and columns swapped.
InitWeights_Swapped(struct, seed) ==
    Array([l \in 1..(IF Len(struct) = 0 THEN 0 ELSE Len(struct) - 1) |->
        Array([i \in 1..struct[l] |->
            Array([j \in 1..struct[l + 1] |-> randn(seed, l, i, j)])])])

\* [randn(structure[layer], structure[layer - 1]) for layer in range(1, num_layers)]
InitWeights(struct, seed) ==
    Array([l \in 1..(IF Len(struct) = 0 THEN 0 ELSE Len(struct) - 1) |->
        Array([i \in 1..struct[l + 1] |->
            Array([j \in 1..struct[l] |-> randn(seed, l, i, j)])])])

\* [randn(structure[layer]) for layer in range(1, num_layers)]
InitBiases(struct, seed) ==
    Array([l \in 1..(IF Len(struct) = 0 THEN 0 ELSE Len(struct) - 1) |->
        Array([i \in 1..struct[l + 1] |-> randn(seed, l, i, 0)])])

\* The weights= / biases= arguments of the constructor: None, or a parameter
\* list.  The constructor stores a given list as it is (lines 49-50, 54-55) and
\* checks nothing; the lists handed in here are shaped by the structure.
NoneArg == [given |-> FALSE, value |-> <<>>]

WeightArgs(struct) ==
    {NoneArg,
     [given |-> TRUE,
      value |-> Array([l \in 1..(IF Len(struct) = 0 THEN 0 ELSE Len(struct) - 1) |->
                    Array([i \in 1..struct[l + 1] |->
                        Array([j \in 1..struct[l] |-> 0])])])]}

BiasArgs(struct) ==
    {NoneArg,
     [given |-> TRUE,
      value |-> Array([l \in 1..(IF Len(struct) = 0 THEN 0 ELSE Len(struct) - 1) |->
                    Array([i \in 1..struct[l + 1] |-> 0])])]}

\* self.weights after __init__ (lines 49-53)
NewWeights(struct, weights_arg, seed) ==
    IF weights_arg.given THEN weights_arg.value ELSE InitWeights(struct, seed)

\* self.biases after __init__ (lines 54-57)
NewBiases(struct, biases_arg, seed) ==
    IF biases_arg.given THEN biases_arg.value ELSE InitBiases(struct, seed)

\* forward_feed: fold activation(dot(w, output) + b) over zip(weights, biases)
RECURSIVE FeedFrom(_, _, _, _)
FeedFrom(w, b, l, output) ==
    IF l > Len(w) \/ l > Len(b) THEN output
    ELSE FeedFrom(w, b, l + 1, activate_function(VecAdd(Dot(w[l], output), b[l])))

forward_feed(w, b, example) ==
    FeedFrom(w, b, 1, example)

\* np.size(data, axis=0)
NumRows(d) ==
    Len(d)

\* row[:-1]: the features of a dataset row
Features(row) ==
    SubSeq(row, 1, Len(row) - 1)

\* row[-1]: the label (one-hot index) of a dataset row
Label(row) ==
    row[Len(row)]

\* The forward pass of backprop: for w, b in zip(weights, biases), with
\* activation = activation_matrix[-1] carried from layer to layer.
RECURSIVE ForwardTrace(_, _, _, _, _)
ForwardTrace(w, b, l, activation_matrix, summatory_matrix) ==
    IF l > Len(w) \/ l > Len(b)
    THEN [activation_matrix |-> activation_matrix, summatory_matrix |-> summatory_matrix]
    ELSE LET activation == activation_matrix[Len(activation_matrix)]
             summatory == VecAdd(Dot(w[l], activation), b[l])
         IN  ForwardTrace(w, b, l + 1,
                          Append(activation_matrix, activate_function(summatory)),
                          Append(summatory_matrix, summatory))

\* Variant: the outer product takes activation_matrix[-layer], the activation
\* leaving the transition instead of the one entering it.
RECURSIVE BackwardFrom_ActivationSlip(_, _, _, _, _, _, _)
BackwardFrom_ActivationSlip(w, num_layers, tr, layer, delta, nabla_weights, nabla_biases) ==
    IF layer >= num_layers
    THEN [nabla_w |-> nabla_weights, nabla_b |-> nabla_biases]
    ELSE LET am == tr.activation_matrix
             sm == tr.summatory_matrix
             d  == VecMul(Dot(Transpose(w[PyNegIndex(w, layer - 1)]), delta),
                          activate_derivative(sm[PyNegIndex(sm, layer)]))
         IN  BackwardFrom_ActivationSlip(w, num_layers, tr, layer + 1, d,
                 [nabla_weights EXCEPT ![PyNegIndex(nabla_weights, layer)] =
                      Outer(d, am[PyNegIndex(am, layer)])],
                 [nabla_biases EXCEPT ![PyNegIndex(nabla_biases, layer)] = d])

\* The backward pass of backprop: for layer in range(2, num_layers).
RECURSIVE BackwardFrom(_, _, _, _, _, _, _)
BackwardFrom(w, num_layers, tr, layer, delta, nabla_weights, nabla_biases) ==
    IF layer >= num_layers
    THEN [nabla_w |-> nabla_weights, nabla_b |-> nabla_biases]
    ELSE LET am == tr.activation_matrix
             sm == tr.summatory_matrix
             d  == VecMul(Dot(Transpose(w[PyNegIndex(w, layer - 1)]), delta),
                          activate_derivative(sm[PyNegIndex(sm, layer)]))
         IN  BackwardFrom(w, num_layers, tr, layer + 1, d,
                 [nabla_weights EXCEPT ![PyNegIndex(nabla_weights, layer)] =
                      Outer(d, am[PyNegIndex(am, layer + 1)])],
                 [nabla_biases EXCEPT ![PyNegIndex(nabla_biases, layer)] = d])

\* backprop(x, y) on parameters w, b: (nabla_weights, nabla_biases)
backprop(w, b, num_layers, x, y) ==
    LET tr == ForwardTrace(w, b, 1, <<x>>, <<>>)
        am == tr.activation_matrix
        sm == tr.summatory_matrix
        delta == VecMul(cost_derivative(am[PyNegIndex(am, 1)], y),
                        activate_derivative(sm[PyNegIndex(sm, 1)]))
        nb == [Array([l \in 1..Len(b) |-> ZerosLikeVec(b[l])])
                  EXCEPT ![PyNegIndex(b, 1)] = delta]
        nw == [Array([l \in 1..Len(w) |-> ZerosLikeMat(w[l])])
                  EXCEPT ![PyNegIndex(w, 1)] = Outer(delta, am[PyNegIndex(am, 2)])]
    IN  BackwardFrom(w, num_layers, tr, 2, delta, nw, nb)

\* The accumulation loop of update_mini_batch: every backprop reads the
\* parameters w, b of the network, which the loop never assigns.
RECURSIVE Accumulate(_, _, _, _, _, _)
Accumulate(w, b, num_layers, mini_batch, i, nabla) ==
    IF i > Len(mini_batch) THEN nabla
    ELSE LET g == backprop(w, b, num_layers,
                           Features(mini_batch[i]), Label(mini_batch[i]))
         IN  Accumulate(w, b, num_layers, mini_batch, i + 1,
                 [nabla_w |-> Array([l \in 1..Len(nabla.nabla_w) |->
                                   MatAdd(nabla.nabla_w[l], g.nabla_w[l])]),
                  nabla_b |-> Array([l \in 1..Len(nabla.nabla_b) |->
                                   VecAdd(nabla.nabla_b[l], g.nabla_b[l])])])

\* learning_rate / len(mini_batch)
ScaledRate(learning_rate, mini_batch) ==
    TrueDiv(learning_rate, Len(mini_batch))

\* Variant: the step subtracts the summed gradient itself, without the rate.
update_mini_batch_no_rate(w, b, num_layers, mini_batch, learning_rate) ==
    LET nabla == Accumulate(w, b, num_layers, mini_batch, 1,
                     [nabla_w |-> Array([l \in 1..Len(w) |-> ZerosLikeMat(w[l])]),
                      nabla_b |-> Array([l \in 1..Len(b) |-> ZerosLikeVec(b[l])])])
    IN  [weights |-> Array([l \in 1..Len(w) |-> MatStep(w[l], 1, nabla.nabla_w[l])]),
         biases  |-> Array([l \in 1..Len(b) |-> VecStep(b[l], 1, nabla.nabla_b[l])])]

\* Variant: the parameters are stepped after every example, so that the next
\* example's gradient is taken at the already stepped parameters.
RECURSIVE update_mini_batch_online_from(_, _, _, _, _, _)
update_mini_batch_online_from(w, b, num_layers, mini_batch, learning_rate, i) ==
    IF i > Len(mini_batch) THEN [weights |-> w, biases |-> b]
    ELSE LET g == backprop(w, b, num_layers,
                           Features(mini_batch[i]), Label(mini_batch[i]))
             rate == ScaledRate(learning_rate, mini_batch)
         IN  update_mini_batch_online_from(
                 Array([l \in 1..Len(w) |-> MatStep(w[l], rate, g.nabla_w[l])]),
                 Array([l \in 1..Len(b) |-> VecStep(b[l], rate, g.nabla_b[l])]),
                 num_layers, mini_batch, learning_rate, i + 1)

update_mini_batch_online(w, b, num_layers, mini_batch, learning_rate) ==
    update_mini_batch_online_from(w, b, num_layers, mini_batch, learning_rate, 1)

\* update_mini_batch on a non-empty batch: the new (weights, biases).
update_mini_batch(w, b, num_layers, mini_batch, learning_rate) ==
    LET nabla == Accumulate(w, b, num_layers, mini_batch, 1,
                     [nabla_w |-> Array([l \in 1..Len(w) |-> ZerosLikeMat(w[l])]),
                      nabla_b |-> Array([l \in 1..Len(b) |-> ZerosLikeVec(b[l])])])
        rate == ScaledRate(learning_rate, mini_batch)
    IN  [weights |-> Array([l \in 1..Len(w) |-> MatStep(w[l], rate, nabla.nabla_w[l])]),
         biases  |-> Array([l \in 1..Len(b) |-> VecStep(b[l], rate, nabla.nabla_b[l])])]

\* The number of rows of test_data whose arg-max prediction equals the label.
NumCorrect(w, b, test_data) ==
    Cardinality({i \in 1..Len(test_data) :
        ArgMax(forward_feed(w, b, Features(test_data[i]))) = Label(test_data[i])})

\* Variant: the fraction of correct answers, not scaled to a percentage.
evaluate_fraction(w, b, test_data) ==
    Frac(NumCorrect(w, b, test_data), NumRows(test_data))

\* evaluate: sum(int(x == y)) / num_test_examples * 100
evaluate(w, b, test_data) ==
    FracMulInt(Frac(NumCorrect(w, b, test_data), NumRows(test_data)), 100)

RECURSIVE TotalCost(_, _, _, _)
TotalCost(w, b, test_data, i) ==
    IF i > Len(test_data) THEN <<0, 1>>
    ELSE FracAdd(cost_function(forward_feed(w, b, Features(test_data[i])),
                               Label(test_data[i])),
                 TotalCost(w, b, test_data, i + 1))

\* J_average: total_cost / num_test_examples
J_average(w, b, test_data) ==
    FracDivInt(TotalCost(w, b, test_data, 1), NumRows(test_data))

\* round(value, 3) on a non-negative rational (ties to the even neighbour)
Round3(p) ==
    LET n == p[1] * 1000
        q == n \div p[2]
        r == n % p[2]
    IN  Frac(IF 2 * r > p[2] \/ (2 * r = p[2] /\ q % 2 = 1) THEN q + 1 ELSE q, 1000)

\* ------------------------------------------------------------- inputs
InputLen(struct) ==
    IF Len(struct) = 0 THEN 1 ELSE struct[1]

OutputLen(struct) ==
    IF Len(struct) = 0 THEN 1 ELSE struct[Len(struct)]

\* Families of dataset rows: row i of family s has its features in {0, 1}
\* and, in the last column, a label that indexes an output neuron.
DataSeeds == {1, 2}

DataRow(struct, i, s) ==
    Array([j \in 1..(InputLen(struct) + 1) |->
        IF j <= InputLen(struct) THEN (i + j + s) % 2
        ELSE ((i - 1) * s + (s \div 2)) % OutputLen(struct)])

DataSet(struct, n, s) ==
    Array([i \in 1..n |-> DataRow(struct, i, s)])

\* Mini-batches handed to update_mini_batch directly (0..MaxRows rows).
DataSets(struct) ==
    {DataSet(struct, n, s) : n \in 0..MaxRows, s \in DataSeeds}

\* Training datasets handed to sgd (0..MaxRows rows).
TrainingSets(struct) ==
    {DataSet(struct, n, 1) : n \in 0..MaxRows}

\* Held-out test datasets (non-empty).
TestSets(struct) ==
    {DataSet(struct, n, s) : n \in 1..2, s \in {0} \cup DataSeeds}

\* Single examples handed to forward_feed / backprop.
Examples(struct) ==
    {DataRow(struct, i, s) : i \in 1..2, s \in DataSeeds}

RECURSIVE Factorial(_)
Factorial(n) ==
    IF n <= 1 THEN 1 ELSE n * Factorial(n - 1)

\* Learning rates: 0 and one that every batch length 1..MaxRows divides, so
\* that learning_rate / len(mini_batch) is an integer.
LearningRates == {0, Factorial(MaxRows)}

\* test_data=None
NoTestData == [given |-> FALSE, rows |-> <<>>]

\* ------------------------------------------------------ state machine
VARIABLES
    structure, weights, biases,
    pc, op,
    data, mini_batch_size, max_epochs, learning_rate, test_data,
    epoch, mini_batches, bi,
    arg, ret, grad, out, raised,
    trace, reports, saves, w0, b0, data0

network == <<structure, weights, biases>>
control == <<pc, op>>
sgdargs == <<data, mini_batch_size, max_epochs, learning_rate, test_data>>
sgdlocals == <<epoch, mini_batches, bi>>
results == <<ret, grad, out, raised>>
ghosts == <<trace, reports, saves, w0, b0, data0>>
vars == <<network, control, sgdargs, sgdlocals, arg, results, ghosts>>

\* len(structure)
num_layers == Len(structure)

NoArg == [batch |-> <<>>, lr |-> 0, x |-> <<>>, y |-> 0, rows |-> <<>>]

NoGrad == [nabla_w |-> <<>>, nabla_b |-> <<>>]

\* Everything but the Network object itself, before any call.
Quiescent ==
    /\ op = "none"
    /\ data = <<>> /\ mini_batch_size = 0 /\ max_epochs = 0 /\ learning_rate = 0
    /\ test_data = NoTestData
    /\ epoch = 0 /\ mini_batches = <<>> /\ bi = 0
    /\ arg = NoArg /\ ret = NoValue /\ grad = NoGrad /\ out = <<>> /\ raised = "none"
    /\ trace = <<>> /\ reports = 0 /\ saves = 0 /\ w0 = <<>> /\ b0 = <<>> /\ data0 = <<>>

\* The state after Network(structure, weights, biases) for a structure of at
\* least two layers.
Init ==
    /\ \E struct \in Structures, seed \in Seeds :
       \E weights_arg \in WeightArgs(struct), biases_arg \in BiasArgs(struct) :
          /\ structure = struct
          /\ weights = NewWeights(struct, weights_arg, seed)
          /\ biases = NewBiases(struct, biases_arg, seed)
    /\ pc = "idle"
    /\ Quiescent

\* The object is ready for its call (one top-level call per object is explored;
\* an sgd call is itself a sequence of update_mini_batch calls).
CanCall ==
    pc = "idle"

\* The bookkeeping every call entry shares.
Enter(name) ==
    /\ op' = name
    /\ w0' = weights /\ b0' = biases
    /\ raised' = "none"

\* ---- forward_feed(example)
CallForwardFeed ==
    /\ CanCall
    /\ \E row \in Examples(structure) :
          /\ arg' = [NoArg EXCEPT !.x = Features(row)]
          /\ out' = forward_feed(weights, biases, Features(row))
    /\ Enter("forward_feed")
    /\ pc' = "done"
    /\ UNCHANGED <<network, sgdargs, sgdlocals, ret, grad, trace, reports, saves, data0>>

\* backprop reads summatory_matrix[-1] (line 162): an IndexError when
\* zip(weights, biases) is empty, i.e. when the network has no layer transition.
BackpropRaises(w, b) ==
    Len(w) = 0 \/ Len(b) = 0

\* ---- backprop(x, y)
CallBackprop ==
    /\ CanCall
    /\ \E row \in Examples(structure) :
          /\ arg' = [NoArg EXCEPT !.x = Features(row), !.y = Label(row)]
          /\ IF BackpropRaises(weights, biases)
             THEN /\ raised' = "IndexError"
                  /\ UNCHANGED grad
             ELSE /\ raised' = "none"
                  /\ grad' = backprop(weights, biases, num_layers,
                                       Features(row), Label(row))
    /\ op' = "backprop"
    /\ w0' = weights /\ b0' = biases
    /\ pc' = "done"
    /\ UNCHANGED <<network, sgdargs, sgdlocals, ret, out, trace, reports, saves, data0>>

\* ---- evaluate(test_data)
CallEvaluate ==
    /\ CanCall
    /\ \E td \in TestSets(structure) :
          /\ arg' = [NoArg EXCEPT !.rows = td]
          /\ ret' = evaluate(weights, biases, td)
    /\ Enter("evaluate")
    /\ pc' = "done"
    /\ UNCHANGED <<network, sgdargs, sgdlocals, grad, out, trace, reports, saves, data0>>

\* ---- update_mini_batch(mini_batch, learning_rate), called directly.
\* On an empty batch learning_rate / len(mini_batch) raises ZeroDivisionError
\* and on a network without layer transitions backprop raises IndexError, both
\* before any assignment to self.weights / self.biases.
CallUpdateMiniBatch ==
    /\ CanCall
    /\ \E batch \in DataSets(structure), lr \in LearningRates :
          /\ arg' = [NoArg EXCEPT !.batch = batch, !.lr = lr]
          /\ IF Len(batch) = 0
             THEN /\ raised' = "ZeroDivisionError"
                  /\ UNCHANGED <<weights, biases>>
             ELSE IF BackpropRaises(weights, biases)
             THEN /\ raised' = "IndexError"
                  /\ UNCHANGED <<weights, biases>>
             ELSE LET new == update_mini_batch(weights, biases, num_layers, batch, lr)
                  IN  /\ weights' = new.weights
                      /\ biases' = new.biases
                      /\ raised' = "none"
    /\ op' = "update_mini_batch"
    /\ w0' = weights /\ b0' = biases
    /\ pc' = "done"
    /\ UNCHANGED <<structure, sgdargs, sgdlocals, ret, grad, out, trace, reports, saves, data0>>

\* ---- sgd(data, mini_batch_size, max_epochs, learning_rate, output_dir, test_data)

\* Variant: every position is drawn from the rows independently (with replacement).
shuffle_resample(d) ==
    IF Len(d) = 0 THEN {d}
    ELSE {Array([i \in 1..Len(d) |-> d[p[i]]]) : p \in [1..Len(d) -> 1..Len(d)]}

\* np.random.shuffle(data): the possible row orders after the in-place shuffle.
shuffle(d) ==
    IF Len(d) = 0 THEN {d}
    ELSE {Array([i \in 1..Len(d) |-> d[p[i]]]) : p \in Permutations(1..Len(d))}

\* range(start, stop, step) for step >= 1, as the sequence of its values.
PyRange(start, stop, step) ==
    Array([k \in 1..(IF stop <= start THEN 0 ELSE (stop - start - 1) \div step + 1) |->
        start + (k - 1) * step])

\* s[lo:hi] for 0 <= lo <= hi: the slice stops at the end of s.
PySlice(s, lo, hi) ==
    SubSeq(s, lo + 1, IF hi < Len(s) THEN hi ELSE Len(s))

\* Variant: only the full batches, range(0, num_examples - mini_batch_size + 1, ...).
MiniBatches_FullOnly(d, m) ==
    LET ks == PyRange(0, NumRows(d) - m + 1, m)
    IN  Array([i \in 1..Len(ks) |-> PySlice(d, ks[i], ks[i] + m)])

\* [data[k: k + mini_batch_size] for k in range(0, num_examples, mini_batch_size)]
MiniBatches(d, m) ==
    LET ks == PyRange(0, NumRows(d), m)
    IN  Array([i \in 1..Len(ks) |-> PySlice(d, ks[i], ks[i] + m)])

\* Variant: a loop that tests its bound after the body (runs at least once).
EpochsLeft_AtLeastOnce(e, total) ==
    e = 0 \/ e < total

\* for epoch in range(max_epochs): another iteration follows
EpochsLeft(e, total) ==
    e < total

\* One observed step of sgd; trace holds the steps of the current epoch, reports
\* and saves count the calls of the logger and of save_neural_network.  kind is "shuffle", "update", "metrics" or
\* "checkpoint"; rows is the dataset after a shuffle or the batch of an
\* update; w, b are the network parameters right after the step.
Event(kind, e, rows, w, b, r, j) ==
    [kind |-> kind, epoch |-> e, rows |-> rows, w |-> w, b |-> b, r |-> r, j |-> j]

CallSgd ==
    /\ CanCall
    /\ \E d \in TrainingSets(structure), m \in 1..MaxRows, total \in 0..MaxEpochs,
          lr \in LearningRates,
          td \in {NoTestData, [given |-> TRUE, rows |-> DataSet(structure, 2, 1)]} :
          /\ data' = d
          /\ mini_batch_size' = m
          /\ max_epochs' = total
          /\ learning_rate' = lr
          /\ test_data' = td
          /\ data0' = d
    /\ Enter("sgd")
    /\ epoch' = 0
    /\ mini_batches' = <<>>
    /\ bi' = 0
    /\ trace' = <<>>
    /\ reports' = 0
    /\ saves' = 0
    /\ pc' = "loop"
    /\ UNCHANGED <<network, arg, ret, grad, out>>

\* Lines 70-72: the next epoch starts; shuffle, then slice into mini-batches.
SgdShuffle ==
    /\ pc = "loop"
    /\ EpochsLeft(epoch, max_epochs)
    /\ \E d \in shuffle(data) :
          /\ data' = d
          /\ mini_batches' = MiniBatches(d, mini_batch_size)
          /\ trace' = <<Event("shuffle", epoch, d, weights, biases, NoValue, NoValue)>>
    /\ bi' = 1
    /\ pc' = "batch"
    /\ UNCHANGED <<network, op, mini_batch_size, max_epochs, learning_rate,
                   test_data, epoch, arg, results, reports, saves, w0, b0, data0>>

\* Lines 73-74: the next mini-batch of the epoch is handed to update_mini_batch.
SgdUpdate ==
    /\ pc = "batch"
    /\ bi <= Len(mini_batches)
    /\ LET new == update_mini_batch(weights, biases, num_layers,
                                    mini_batches[bi], learning_rate)
       IN  /\ weights' = new.weights
           /\ biases' = new.biases
           /\ trace' = Append(trace, Event("update", epoch, mini_batches[bi],
                                           new.weights, new.biases, NoValue, NoValue))
    /\ bi' = bi + 1
    /\ UNCHANGED <<structure, control, sgdargs, epoch, mini_batches, arg, results,
                   reports, saves, w0, b0, data0>>

\* Lines 76-81: the per-epoch report to the logger.
SgdReport ==
    /\ pc = "batch"
    /\ bi > Len(mini_batches)
    /\ trace' = Append(trace,
          IF test_data.given
          THEN Event("metrics", epoch, <<>>, weights, biases,
                     Round3(evaluate(weights, biases, test_data.rows)),
                     J_average(weights, biases, test_data.rows))
          ELSE Event("metrics", epoch, <<>>, weights, biases, <<0, 1>>, NoValue))
    /\ reports' = reports + 1
    /\ pc' = "save"
    /\ UNCHANGED <<network, op, sgdargs, sgdlocals, arg, results, saves, w0, b0, data0>>

\* Variant: a checkpoint every second epoch.
CheckpointDue_EveryOther(e) ==
    e % 2 = 0

\* if epoch % 1 == 0
CheckpointDue(e) ==
    e % 1 = 0

\* Lines 83-84: save_neural_network(self, output_dir) when the checkpoint is due.
SgdCheckpoint ==
    /\ pc = "save"
    /\ IF CheckpointDue(epoch)
       THEN /\ trace' = Append(trace, Event("checkpoint", epoch, <<>>, weights, biases,
                                            NoValue, NoValue))
            /\ saves' = saves + 1
       ELSE UNCHANGED <<trace, saves>>
    /\ epoch' = epoch + 1
    /\ pc' = "loop"
    /\ UNCHANGED <<network, op, sgdargs, mini_batches, bi, arg, results,
                   reports, w0, b0, data0>>

\* Lines 86-88: the loop is over; return evaluate(test_data), or 0.
SgdReturn ==
    /\ pc = "loop"
    /\ ~EpochsLeft(epoch, max_epochs)
    /\ ret' = IF test_data.given THEN evaluate(weights, biases, test_data.rows)
              ELSE <<0, 1>>
    /\ pc' = "done"
    /\ UNCHANGED <<network, op, sgdargs, sgdlocals, arg, grad, out, raised, ghosts>>

Next ==
    \/ CallForwardFeed
    \/ CallBackprop
    \/ CallEvaluate
    \/ CallUpdateMiniBatch
    \/ CallSgd
    \/ SgdShuffle
    \/ SgdUpdate
    \/ SgdReport
    \/ SgdCheckpoint
    \/ SgdReturn

Spec == Init /\ [][Next]_vars

\* ------------------------------------------------------- construction
\* Before Network(...) is called.
InitCtor ==
    /\ structure = <<>> /\ weights = <<>> /\ biases = <<>>
    /\ pc = "new"
    /\ Quiescent

\* Network(structure): lines 41-57 run for a structure of any length; no
\* statement of __init__ inspects len(structure) or raises.
CallInit ==
    /\ pc = "new"
    /\ \E struct \in AnyStructures, seed \in Seeds :
       \E weights_arg \in WeightArgs(struct), biases_arg \in BiasArgs(struct) :
          /\ structure' = struct
          /\ weights' = NewWeights(struct, weights_arg, seed)
          /\ biases' = NewBiases(struct, biases_arg, seed)
    /\ pc' = "idle"
    /\ op' = "__init__"
    /\ UNCHANGED <<sgdargs, sgdlocals, arg, results, ghosts>>

NextCtor ==
    \/ CallInit
    \/ CallForwardFeed
    \/ CallEvaluate
    \/ CallBackprop
    \/ CallUpdateMiniBatch

SpecCtor == InitCtor /\ [][NextCtor]_vars

\* ============================================================= claims

\* The entries of layer transition l (1-based) of a parameter list are shaped
\* by the structure: rows = neurons of the next layer, columns = of the previous.
ShapedBy(struct, w, b) ==
    /\ Len(w) = Len(struct) - 1
    /\ Len(b) = Len(struct) - 1
    /\ \A l \in 1..(Len(struct) - 1) :
          /\ Len(w[l]) = struct[l + 1]
          /\ \A i \in 1..Len(w[l]) : Len(w[l][i]) = struct[l]
          /\ Len(b[l]) = struct[l + 1]

SomeGradient(w, b, batch) ==
    \E i \in 1..Len(batch) :
        LET g == backprop(w, b, Len(w) + 1, Features(batch[i]), Label(batch[i]))
        IN  \E l \in 1..Len(w) : g.nabla_b[l] # ZerosLikeVec(b[l])

\* C2: update_mini_batch with learning_rate = 0 leaves every weight and every
\* bias as it was before the call, whether called directly or by sgd.
C2_ZeroRateIdentity ==
    /\ (op = "update_mini_batch" /\ arg.lr = 0) => (weights = w0 /\ biases = b0)
    /\ (op = "sgd" /\ learning_rate = 0) => (weights = w0 /\ biases = b0)

\* C2 witness: a direct call with rate 0 on a batch whose gradient is not zero.
C2_Witness ==
    /\ op = "update_mini_batch" /\ arg.lr = 0 /\ raised = "none"
    /\ Len(arg.batch) = MaxRows
    /\ SomeGradient(w0, b0, arg.batch)

\* C3: sgd with max_epochs = 0 leaves weights, biases and the dataset as they
\* were, makes no shuffle, update, report or checkpoint, and returns the accuracy
\* of the untouched parameters on the test data, or 0 without test data.
C3_ZeroEpochs ==
    (op = "sgd" /\ max_epochs = 0) =>
        /\ weights = w0 /\ biases = b0 /\ data = data0
        /\ trace = <<>> /\ reports = 0 /\ saves = 0
        /\ pc \in {"loop", "done"}
        /\ pc = "done" =>
              ret = IF test_data.given THEN evaluate(w0, b0, test_data.rows)
                    ELSE <<0, 1>>

\* C3 witness: such a call has returned, with test data, a non-empty dataset
\* and a non-zero learning rate.
C3_Witness ==
    /\ op = "sgd" /\ pc = "done" /\ max_epochs = 0
    /\ test_data.given /\ learning_rate # 0 /\ Len(data) = MaxRows
    /\ ret # NoValue

\* The rows of a dataset with their multiplicities.
BagOfRows(d) ==
    [r \in {d[i] : i \in 1..Len(d)} |-> Cardinality({i \in 1..Len(d) : d[i] = r})]

\* C4: throughout and after sgd the training dataset holds the same multiset
\* of rows as at the call; only their order may differ.
C4_RowsPreserved ==
    op = "sgd" => (Len(data) = Len(data0) /\ BagOfRows(data) = BagOfRows(data0))

\* C4 witness: sgd has returned after two epochs with the rows, one of them
\* occurring twice, in another order.
C4_Witness ==
    /\ op = "sgd" /\ pc = "done" /\ max_epochs = 2
    /\ data # data0
    /\ \E i, j \in 1..Len(data) : i # j /\ data[i] = data[j]

\* The kind of the i-th step of an epoch that has nb mini-batches.
KindAt(i, nb) ==
    IF i = 1 THEN "shuffle"
    ELSE IF i <= nb + 1 THEN "update"
    ELSE IF i = nb + 2 THEN "metrics"
    ELSE "checkpoint"

\* C5: an sgd run with max_epochs = E calls the logger and save_neural_network
\* E times each, once per epoch, with or without test data.  An epoch is:
\* shuffle, all its mini-batch updates, the report, the checkpoint; updates of
\* an epoch start only after the checkpoints of all earlier epochs; the
\* checkpoint sees the parameters left by the epoch's last update.
C5_EpochOrder ==
    op = "sgd" =>
        LET nb == Len(mini_batches)
            cur == IF pc \in {"loop", "done"} THEN epoch - 1 ELSE epoch
        IN  /\ pc = "done" => (epoch = max_epochs /\ reports = max_epochs
                                                  /\ saves = max_epochs)
            /\ pc \in {"loop", "batch"} => (reports = epoch /\ saves = epoch)
            /\ pc = "save" => (reports = epoch + 1 /\ saves = epoch)
            /\ Len(trace) = (IF epoch = 0 /\ pc \in {"loop", "done"} THEN 0
                             ELSE IF pc = "batch" THEN bi
                             ELSE IF pc = "save" THEN nb + 2
                             ELSE nb + 3)
            /\ \A i \in 1..Len(trace) :
                  /\ trace[i].kind = KindAt(i, nb)
                  /\ trace[i].epoch = cur
                  /\ trace[i].kind \in {"metrics", "checkpoint"} =>
                        (trace[i].w = trace[nb + 1].w /\ trace[i].b = trace[nb + 1].b)
            /\ Len(trace) > 0 => (trace[Len(trace)].w = weights
                                  /\ trace[Len(trace)].b = biases)

\* C5 witness: a run of two epochs of two mini-batches each, without test data,
\* has returned with changed parameters; each sink was called twice.
C5_Witness ==
    /\ op = "sgd" /\ pc = "done" /\ max_epochs = 2 /\ ~test_data.given
    /\ reports = 2 /\ saves = 2
    /\ Len(mini_batches) = 2
    /\ trace[Len(trace)].kind = "checkpoint"
    /\ weights # w0

\* A further case of C5 that is reached: the checkpoint of an epoch follows two
\* updates that both changed the parameters.
C5_CheckpointAfterChange ==
    /\ op = "sgd" /\ pc = "loop" /\ Len(trace) = 5
    /\ trace[5].kind = "checkpoint"
    /\ <<trace[2].w, trace[2].b>> # <<trace[1].w, trace[1].b>>
    /\ <<trace[3].w, trace[3].b>> # <<trace[2].w, trace[2].b>>

\* The percentage r (a rational) is 100 * correct / n.
IsPercentage(r, correct, n) ==
    /\ r[2] > 0
    /\ r[1] * n = 100 * correct * r[2]

\* p (0-based) is the arg-max of v: a largest entry, with only smaller ones before.
IsFirstMax(v, p) ==
    /\ p + 1 \in 1..Len(v)
    /\ \A j \in 1..Len(v) : v[j] <= v[p + 1]
    /\ \A j \in 1..p : v[j] < v[p + 1]

\* The rows of td that the network with parameters w, b classifies correctly.
CorrectRows(w, b, td) ==
    {i \in 1..Len(td) : IsFirstMax(forward_feed(w, b, Features(td[i])), Label(td[i]))}

\* C6: evaluate(test_data) returns 100 * (rows whose arg-max output index is
\* the label) / (rows): exactly 100 when all are right, exactly 0 when all are
\* wrong, always within [0, 100]; weights and biases stay as they were.  The
\* same value is what sgd returns for its test data.
C6_Evaluate ==
    /\ (op = "evaluate") =>
          LET n == Len(arg.rows)
              correct == Cardinality(CorrectRows(w0, b0, arg.rows))
          IN  /\ IsPercentage(ret, correct, n)
              /\ correct = n => ret = <<100, 1>>
              /\ correct = 0 => ret = <<0, 1>>
              /\ 0 <= ret[1] /\ ret[1] <= 100 * ret[2]
              /\ weights = w0 /\ biases = b0
    /\ (op = "sgd" /\ pc = "done" /\ test_data.given) =>
          LET n == Len(test_data.rows)
              correct == Cardinality(CorrectRows(weights, biases, test_data.rows))
          IN  /\ IsPercentage(ret, correct, n)
              /\ correct = n => ret = <<100, 1>>
              /\ correct = 0 => ret = <<0, 1>>
              /\ 0 <= ret[1] /\ ret[1] <= 100 * ret[2]

\* C6 witness: evaluate has returned 50 for two rows, one right and one wrong.
C6_Witness ==
    /\ op = "evaluate" /\ Len(arg.rows) = 2
    /\ Cardinality(CorrectRows(w0, b0, arg.rows)) = 1
    /\ ret = <<50, 1>>

\* Two further cases of C6 that are reached: all rows right, all rows wrong.
C6_AllRight ==
    /\ op = "evaluate" /\ Len(arg.rows) = 2
    /\ Cardinality(CorrectRows(w0, b0, arg.rows)) = 2

C6_AllWrong ==
    /\ op = "evaluate" /\ Len(arg.rows) = 2
    /\ Cardinality(CorrectRows(w0, b0, arg.rows)) = 0

\* C7: a structure with fewer than two layers is rejected by the constructor,
\* so that every Network object has at least two layers (one transition).
C7_DegenerateRejected ==
    pc # "new" => (Len(structure) >= 2 /\ Len(weights) >= 1 /\ Len(biases) >= 1)

\* The per-example gradients of a batch, all taken at the parameters w, b.
GradientsAt(w, b, batch) ==
    [i \in 1..Len(batch) |->
        backprop(w, b, Len(w) + 1, Features(batch[i]), Label(batch[i]))]

\* w2, b2 are w, b stepped once by lr / Len(batch) times the summed gradients
\* (stated without the division: both sides are multiplied by Len(batch)).
IsBatchStep(w, b, batch, lr, w2, b2) ==
    LET n == Len(batch)
        g == GradientsAt(w, b, batch)
    IN  /\ Len(w2) = Len(w) /\ Len(b2) = Len(b)
        /\ \A l \in 1..Len(w) :
              /\ Len(w2[l]) = Len(w[l]) /\ Len(b2[l]) = Len(b[l])
              /\ \A r \in 1..Len(w[l]) :
                    /\ b2[l][r] * n = b[l][r] * n
                           - lr * SumSeq([i \in 1..n |-> g[i].nabla_b[l][r]])
                    /\ Len(w2[l][r]) = Len(w[l][r])
                    /\ \A c \in 1..Len(w[l][r]) :
                          w2[l][r][c] * n = w[l][r][c] * n
                              - lr * SumSeq([i \in 1..n |-> g[i].nabla_w[l][r][c]])

\* C8: update_mini_batch on a non-empty batch takes every example's gradient at
\* the parameters it was called with and then steps each weight and bias once,
\* by (learning_rate / number of rows of this batch) times the summed gradient,
\* also for a final batch shorter than mini_batch_size.
C8_AccumulateThenStep ==
    /\ (op = "update_mini_batch" /\ raised = "none") =>
          IsBatchStep(w0, b0, arg.batch, arg.lr, weights, biases)
    /\ (op = "sgd" /\ Len(trace) > 1 /\ trace[Len(trace)].kind = "update") =>
          LET k == Len(trace)
          IN  IsBatchStep(trace[k - 1].w, trace[k - 1].b, trace[k].rows,
                          learning_rate, trace[k].w, trace[k].b)

\* C8 witness: sgd has just stepped on a final batch shorter than
\* mini_batch_size, after a batch of two rows whose step changed the parameters.
C8_Witness ==
    /\ op = "sgd" /\ pc = "batch" /\ mini_batch_size = 2 /\ Len(trace) = 3
    /\ Len(trace[2].rows) = 2 /\ Len(trace[3].rows) = 1
    /\ trace[2].w # trace[1].w
    /\ trace[3].w # trace[2].w

\* The rows of a sequence of events, concatenated.
RECURSIVE ConcatRows(_)
ConcatRows(events) ==
    IF Len(events) = 0 THEN <<>> ELSE Head(events).rows \o ConcatRows(Tail(events))

IsUpdate(e) ==
    e.kind = "update"

\* C9: in each epoch over n rows with mini_batch_size m >= 1 the updates are
\* made on the slices [0, m), [m, 2m), ... of the shuffled dataset, in that
\* order; there are ceil(n / m) of them, each row is in exactly one, none is
\* empty and all but possibly the last hold exactly m rows.
C9_Batches ==
    (op = "sgd" /\ Len(trace) > 0) =>
        LET D == trace[1].rows
            n == Len(D)
            m == mini_batch_size
            U == SelectSeq(trace, IsUpdate)
        IN  /\ D = data
            /\ \A i \in 1..Len(U) :
                  /\ U[i].rows = SubSeq(D, (i - 1) * m + 1, IF i * m < n THEN i * m ELSE n)
                  /\ Len(U[i].rows) >= 1
                  /\ Len(U[i].rows) <= m
                  /\ Len(U[i].rows) < m => i * m > n
                  /\ i < Len(U) => Len(U[i].rows) = m
            /\ pc # "batch" =>
                  /\ Len(U) * m >= n
                  /\ Len(U) > 0 => (Len(U) - 1) * m < n
                  /\ ConcatRows(U) = D

\* C9 witness: an epoch over three rows with mini_batch_size 2 has made its
\* two updates, the second on the single remaining row.
C9_Witness ==
    /\ op = "sgd" /\ pc = "save" /\ epoch = 1
    /\ Len(data) = 3 /\ mini_batch_size = 2
    /\ Len(SelectSeq(trace, IsUpdate)) = 2
    /\ Len(trace[3].rows) = 1

\* The activation leaving transition i (the raw input x for i = 0) and the
\* summatory value of transition i, by the defining recurrence.
RECURSIVE ActivationOf(_, _, _, _)
ActivationOf(w, b, x, i) ==
    IF i = 0 THEN x
    ELSE activate_function(VecAdd(Dot(w[i], ActivationOf(w, b, x, i - 1)), b[i]))

SummatoryOf(w, b, x, i) ==
    VecAdd(Dot(w[i], ActivationOf(w, b, x, i - 1)), b[i])

\* C10: on a network with k >= 1 transitions backprop(x, label) returns k
\* weight gradients and k bias gradients, shaped and ordered like the weights
\* and biases.  The last bias gradient is cost_derivative(final activation,
\* label) * activation_derivative(final summatory); bias gradient i < k is
\* (weights[i+1]^T . bias gradient i+1) * activation_derivative(summatory i);
\* weight gradient i is the outer product of bias gradient i and the activation
\* entering transition i.  The weights and biases stay as they were.
C10_BackpropGradients ==
    (op = "backprop" /\ raised = "none") =>
        LET k == Len(w0)
            nw == grad.nabla_w
            nb == grad.nabla_b
        IN  /\ k >= 1 /\ Len(nw) = k /\ Len(nb) = k
            /\ \A i \in 1..k :
                  /\ Len(nb[i]) = Len(b0[i])
                  /\ Len(nw[i]) = Len(w0[i])
                  /\ \A r \in 1..Len(nw[i]) : Len(nw[i][r]) = Len(w0[i][r])
                  /\ nw[i] = Outer(nb[i], ActivationOf(w0, b0, arg.x, i - 1))
            /\ nb[k] = VecMul(cost_derivative(ActivationOf(w0, b0, arg.x, k), arg.y),
                              activate_derivative(SummatoryOf(w0, b0, arg.x, k)))
            /\ \A i \in 1..(k - 1) :
                  nb[i] = VecMul(Dot(Transpose(w0[i + 1]), nb[i + 1]),
                                 activate_derivative(SummatoryOf(w0, b0, arg.x, i)))
            /\ weights = w0 /\ biases = b0

\* C10 witness: backprop has returned on a network of three transitions with
\* a gradient that is not zero in the first transition.
C10_Witness ==
    /\ op = "backprop" /\ raised = "none" /\ Len(w0) = 3
    /\ grad.nabla_w[1] # ZerosLikeMat(w0[1])
    /\ grad.nabla_b[1] # ZerosLikeVec(b0[1])

====
